---- MODULE Spec2Model ----
(***************************************************************************)
(* A model of the trace / AIR / commitment machinery of winterfell:        *)
(*   - the byte codec (utils/src/lib.rs) and the Commitments record        *)
(*     (common/src/proof/commitments.rs),                                  *)
(*   - the RAP trace table (examples/src/rescue_raps/custom_trace_table.rs)*)
(*   - the evaluation frame (air/src/air/transition/frame.rs),             *)
(*   - the VDF AIR (examples/src/vdf/regular/air.rs).                      *)
(* Byte sequences are sequences of numbers in 0..255; a cursor `pos` is    *)
(* the 0-based index of the codec, so the bytes at [pos, end) of s are     *)
(* SubSeq(s, pos + 1, end).                                                *)
(***************************************************************************)
EXTENDS Integers, Sequences, FiniteSets, TLC

VARIABLES
    \* ---- Commitments and byte codec
    comm,      \* the bytes held by the Commitments record (self.0)
    origin,    \* how the record came to be: "default", "new" or "read"
    roots,     \* what new / add were given: trace_root, constraint_root, fri_roots, added
    target,    \* the byte sink write_into appends to
    wres,      \* outcome of write_into: "none", "ok" or "panic"
    cut,       \* TRUE once the last byte of the serialized record was removed
    pos,       \* the caller-owned read cursor
    rres,      \* outcome of read_from: "none", "Ok" or "UnexpectedEOF"
    pres,      \* outcome of parse
    parg,      \* the num_fri_layers that parse was given
    cpc        \* position of the serialization scenario

cvars == <<comm, origin, roots, target, wres, cut, pos, rres, pres, parg, cpc>>

VARIABLES
    \* ---- RAP trace table
    tbl,       \* the RapTraceTable: layout, trace (columns of cells), meta
    tstatus,   \* outcome of with_meta: "none", "ok" or "panic"
    targs,     \* what with_meta was given: width, length, number of meta bytes
    fpc,       \* position of fill: "idle", "loop" or "done"
    fi,        \* the loop variable i of fill
    state,     \* the state buffer of fill
    closures,  \* the init and update closures fill was given
    calls,     \* the closure calls fill made so far, with the buffer each received
    writes,    \* the rows update_row was called for, in call order
    frame,     \* the evaluation frame read_main_frame filled last
    fres,      \* outcome of read_main_frame: "none", "ok" or "panic"
    fstep,     \* the row_idx read_main_frame was given
    air        \* the VdfAir built for the trace

tvars == <<tbl, tstatus, targs, fpc, fi, state, closures, calls, writes, frame, fres,
           fstep, air>>

VARIABLES
    \* ---- DefaultEvaluationFrame
    data,      \* the rows of the frame (row-major)
    rcall      \* the last read_from call: its columns, its step, the rows before it

fvars == <<data, rcall>>

VARIABLES
    \* ---- auxiliary trace segment
    auxres,    \* outcome of the last build_aux_segment: "none", "None", "Some" or "panic"
    aux,       \* the matrix the first successful build_aux_segment returned
    auxargs    \* what the last build_aux_segment was given: prior segments, random elements

avars == <<auxres, aux, auxargs>>

VARIABLES
    \* ---- byte codec with a cursor of full width
    bsrc,      \* the bytes read from
    bopen,     \* whether the caller has picked the bytes
    bpos,      \* the caller's cursor
    bres       \* the last read: function, width, cursor before it, outcome, value

bvars == <<bsrc, bopen, bpos, bres>>

VARIABLES
    \* ---- grouping and flattening of elements
    gvec,      \* the vector handed to the grouping
    gres       \* the last grouping: outcome, chunks, capacity, flattened chunks

gvars == <<gvec, gres>>

VARIABLES
    \* ---- transpose_slice
    psrc,      \* the source slice and N
    presult,   \* the result vector, cell by cell
    powner,    \* the worker that took each row of the result
    pcount,    \* how often each cell of the result was written
    ppc        \* "idle", "running", "done" or "panic"

pvars == <<psrc, presult, powner, pcount, ppc>>

VARIABLES
    \* ---- evaluation of the transition constraint
    eres       \* the last evaluate_transition: frame, result

evars == <<eres>>

\* the state of the components that follow the evaluation frame
xvars == <<avars, bvars, gvars, pvars, evars>>

vars == <<cvars, tvars, fvars, xvars>>

\* ------------------------------------------------------------------ bounds

\* number of bytes of a digest of the hash function H
DigestSize == 2
\* longest list of FRI roots handed to Commitments::new
MaxFri == 2
\* most calls of Commitments::add on one record
MaxAdd == 2

\* u16::MAX
U16Max == 65535

\* the first bytes of the digests the model draws roots from
DigestSeeds == {10, 20}

Digest(s) == [i \in 1..DigestSize |-> (s + i) % 256]

Digests == {Digest(s) : s \in DigestSeeds}

\* digest lists of length 0..n
DigestLists(n) == UNION {[1..k -> Digests] : k \in 0..n}

\* a byte sequence of length n with a recognisable content
Fill(n) == [i \in 1..n |-> i % 251]

\* ------------------------------------------------------------- byte codec

\* u16::to_le_bytes
to_le_bytes_u16(value) == <<value % 256, (value \div 256) % 256>>

\* u16::from_le_bytes
from_le_bytes_u16(bytes) == bytes[1] + 256 * bytes[2]

\* `x as u16`
as_u16(x) == x % (U16Max + 1)

\* ByteWriter::write_u8_slice for Vec<u8>
write_u8_slice(self, values) == self \o values

\* ByteWriter::write_u16
write_u16(self, value) == write_u8_slice(self, to_le_bytes_u16(value))

\* ByteReader::read_u16 for [u8]: the result and the cursor after the call
read_u16(self, p) ==
    LET end_pos == p + 2
    IN  IF end_pos > Len(self)
        THEN [ok |-> FALSE, val |-> 0, pos |-> p]
        ELSE [ok |-> TRUE, val |-> from_le_bytes_u16(SubSeq(self, p + 1, end_pos)),
              pos |-> end_pos]

\* a read_u8_vec that hands back the bytes that are left instead of failing
read_u8_vec_short(self, p, len) ==
    LET end_pos == IF p + len > Len(self) THEN Len(self) ELSE p + len
    IN  [ok |-> TRUE, val |-> SubSeq(self, p + 1, end_pos), pos |-> end_pos]

\* ByteReader::read_u8_vec for [u8]
read_u8_vec(self, p, len) ==
    LET end_pos == p + len
    IN  IF end_pos > Len(self)
        THEN [ok |-> FALSE, val |-> <<>>, pos |-> p]
        ELSE [ok |-> TRUE, val |-> SubSeq(self, p + 1, end_pos), pos |-> end_pos]

\* ------------------------------------------------------------ Commitments

RECURSIVE Flatten(_)
\* the bytes of a list of digests, in order (the loop of extend_from_slice)
Flatten(ds) == IF ds = <<>> THEN <<>> ELSE Head(ds) \o Flatten(Tail(ds))

\* Commitments::new
CommitmentsNew(trace_root, constraint_root, fri_roots) ==
    trace_root \o constraint_root \o Flatten(fri_roots)

\* Commitments::add
CommitmentsAdd(self, commitment) == self \o commitment

\* Hasher::read_digests_into_vec: num_digests digests from the front of source,
\* and the number of bytes they take
read_digests_into_vec(source, num_digests) ==
    LET num_bytes == num_digests * DigestSize
    IN  IF Len(source) < num_bytes
        THEN [ok |-> FALSE, digests |-> <<>>, read |-> 0]
        ELSE [ok |-> TRUE,
              digests |-> [i \in 1..num_digests |->
                              SubSeq(source, (i - 1) * DigestSize + 1, i * DigestSize)],
              read |-> num_bytes]

NoParse == [tag |-> "none", trace_root |-> <<>>, constraint_root |-> <<>>,
            fri_roots |-> <<>>, found |-> 0, expected |-> 0]

\* Commitments::parse counting no FRI remainder commitment
CommitmentsParseTwo(self, num_fri_layers) ==
    LET num_bytes == Len(self)
        num_commitments == num_fri_layers + 2
        r == read_digests_into_vec(self, num_commitments)
    IN  IF ~r.ok
        THEN [NoParse EXCEPT !.tag = "FailedToParseCommitments"]
        ELSE IF r.read # num_bytes
        THEN [NoParse EXCEPT !.tag = "TooManyCommitmentBytes",
                             !.found = r.read, !.expected = num_bytes]
        ELSE [NoParse EXCEPT !.tag = "Ok",
                             !.trace_root = r.digests[1],
                             !.constraint_root = r.digests[2],
                             !.fri_roots = SubSeq(r.digests, 3, num_commitments)]

\* Commitments::parse without the check that all bytes were consumed
CommitmentsParseUnchecked(self, num_fri_layers) ==
    LET num_commitments == num_fri_layers + 3
        r == read_digests_into_vec(self, num_commitments)
    IN  IF ~r.ok
        THEN [NoParse EXCEPT !.tag = "FailedToParseCommitments"]
        ELSE [NoParse EXCEPT !.tag = "Ok",
                             !.trace_root = r.digests[1],
                             !.constraint_root = r.digests[2],
                             !.fri_roots = SubSeq(r.digests, 3, num_commitments)]

\* Commitments::parse
CommitmentsParse(self, num_fri_layers) ==
    LET num_bytes == Len(self)
        \* +1 for trace_root, +1 for constraint root, +1 for FRI remainder commitment
        num_commitments == num_fri_layers + 3
        r == read_digests_into_vec(self, num_commitments)
    IN  IF ~r.ok
        THEN [NoParse EXCEPT !.tag = "FailedToParseCommitments"]
        ELSE IF r.read # num_bytes
        THEN [NoParse EXCEPT !.tag = "TooManyCommitmentBytes",
                             !.found = r.read, !.expected = num_bytes]
        ELSE [NoParse EXCEPT !.tag = "Ok",
                             !.trace_root = r.digests[1],
                             !.constraint_root = r.digests[2],
                             !.fri_roots = SubSeq(r.digests, 3, num_commitments)]

\* Commitments::write_into with the length prefix in big-endian order
CommitmentsWriteIntoBE(self, tgt) ==
    IF ~(Len(self) < U16Max)
    THEN [ok |-> FALSE, target |-> tgt]
    ELSE [ok |-> TRUE,
          target |-> write_u8_slice(
                        write_u8_slice(tgt, <<(as_u16(Len(self)) \div 256) % 256,
                                              as_u16(Len(self)) % 256>>), self)]

\* Commitments::write_into: the assertion, then the prefix and the bytes
CommitmentsWriteInto(self, tgt) ==
    IF ~(Len(self) < U16Max)
    THEN [ok |-> FALSE, target |-> tgt]
    ELSE [ok |-> TRUE,
          target |-> write_u8_slice(write_u16(tgt, as_u16(Len(self))), self)]

\* Commitments::read_from
CommitmentsReadFrom(source, p) ==
    LET n == read_u16(source, p)
    IN  IF ~n.ok
        THEN [ok |-> FALSE, val |-> <<>>, pos |-> n.pos]
        ELSE LET result == read_u8_vec(source, n.pos, n.val)
             IN  IF ~result.ok
                 THEN [ok |-> FALSE, val |-> <<>>, pos |-> result.pos]
                 ELSE [ok |-> TRUE, val |-> result.val, pos |-> result.pos]

\* ------------------------------------------- the serialization scenario

NoRoots == [trace_root |-> <<>>, constraint_root |-> <<>>, fri_roots |-> <<>>,
            added |-> <<>>]

\* serialized input that did not come from this writer: <<prefix value, bytes that follow>>
ForeignShapes ==
    {<<0, 0>>, <<1, 1>>, <<3 * DigestSize, 3 * DigestSize>>,
     <<3 * DigestSize + 1, 3 * DigestSize + 1>>, <<3 * DigestSize, 3 * DigestSize + 2>>,
     <<5 * DigestSize, 5 * DigestSize>>, <<5, 3>>,
     <<U16Max - 1, U16Max - 1>>, <<U16Max, U16Max>>}

ForeignSources ==
    {to_le_bytes_u16(s[1]) \o Fill(s[2]) : s \in ForeignShapes} \cup {<<7>>}

\* Commitments::default(), a fresh writer, a cursor at 0
InitC ==
    /\ comm = <<>>
    /\ origin = "default"
    /\ roots = NoRoots
    /\ target = <<>>
    /\ wres = "none"
    /\ cut = FALSE
    /\ pos = 0
    /\ rres = "none"
    /\ pres = NoParse
    /\ parg = 0
    /\ cpc = "build"

Fresh == cpc = "build" /\ origin = "default" /\ roots = NoRoots /\ rres = "none"

\* Commitments::new(trace_root, constraint_root, fri_roots)
New(trace_root, constraint_root, fri_roots) ==
    /\ Fresh
    /\ comm' = CommitmentsNew(trace_root, constraint_root, fri_roots)
    /\ origin' = "new"
    /\ roots' = [trace_root |-> trace_root, constraint_root |-> constraint_root,
                 fri_roots |-> fri_roots, added |-> <<>>]
    /\ UNCHANGED <<target, wres, cut, pos, rres, pres, parg, cpc, tvars, fvars, xvars>>

\* self.add(commitment)
Add(commitment) ==
    /\ cpc = "build"
    /\ Len(roots.added) < MaxAdd
    /\ comm' = CommitmentsAdd(comm, commitment)
    /\ roots' = [roots EXCEPT !.added = Append(@, commitment)]
    /\ UNCHANGED <<origin, target, wres, cut, pos, rres, pres, parg, cpc, tvars, fvars, xvars>>

\* self.write_into(&mut target) on a fresh writer
WriteInto ==
    /\ cpc = "build"
    /\ LET w == CommitmentsWriteInto(comm, target)
       IN  /\ target' = w.target
           /\ wres' = IF w.ok THEN "ok" ELSE "panic"
           /\ cpc' = IF w.ok THEN "written" ELSE "panic"
    /\ UNCHANGED <<comm, origin, roots, cut, pos, rres, pres, parg, tvars, fvars, xvars>>

\* the last byte of the serialized record is lost
Truncate ==
    /\ cpc = "written"
    /\ ~cut
    /\ target' = SubSeq(target, 1, Len(target) - 1)
    /\ cut' = TRUE
    /\ UNCHANGED <<comm, origin, roots, wres, pos, rres, pres, parg, cpc, tvars, fvars, xvars>>

\* Commitments::read_from(&target, &mut pos) with pos = 0
ReadFrom ==
    /\ cpc = "written"
    /\ LET r == CommitmentsReadFrom(target, 0)
       IN  /\ pos' = r.pos
           /\ rres' = IF r.ok THEN "Ok" ELSE "UnexpectedEOF"
           /\ comm' = IF r.ok THEN r.val ELSE comm
           /\ cpc' = IF r.ok THEN "read" ELSE "readfailed"
    /\ UNCHANGED <<origin, roots, target, wres, cut, pres, parg, tvars, fvars, xvars>>

\* Commitments::read_from(source, &mut pos) with pos = 0, on input from elsewhere;
\* the record read can be added to, serialized again and parsed
ReadForeign(source) ==
    /\ Fresh
    /\ LET r == CommitmentsReadFrom(source, 0)
       IN  /\ pos' = r.pos
           /\ rres' = IF r.ok THEN "Ok" ELSE "UnexpectedEOF"
           /\ comm' = IF r.ok THEN r.val ELSE comm
           /\ cpc' = IF r.ok THEN "build" ELSE "readfailed"
    /\ origin' = "read"
    /\ UNCHANGED <<roots, target, wres, cut, pres, parg, tvars, fvars, xvars>>

\* self.parse(num_fri_layers)
Parse(num_fri_layers) ==
    /\ cpc \in {"build", "read"}
    /\ pres' = CommitmentsParse(comm, num_fri_layers)
    /\ parg' = num_fri_layers
    /\ cpc' = "parsed"
    /\ UNCHANGED <<comm, origin, roots, target, wres, cut, pos, rres, tvars, fvars, xvars>>

NextC ==
    \/ \E tr \in Digests, cr \in Digests, fri \in DigestLists(MaxFri) : New(tr, cr, fri)
    \/ \E d \in Digests : Add(d)
    \/ WriteInto
    \/ Truncate
    \/ ReadFrom
    \/ \E src \in ForeignSources : ReadForeign(src)
    \/ \E k \in 0..(MaxFri + 1) : Parse(k)

\* ------------------------------------------------------ field elements

\* the modulus of the base field B the model instantiates the code with
M == 113

\* B::TWO_ADICITY: M - 1 = 2^4 * 7
TWO_ADICITY == 4

FieldElements == 0..(M - 1)

ZERO == 0

ONE == 1

RECURSIVE exp(_, _)
\* FieldElement::exp
exp(b, e) == IF e = 0 THEN ONE ELSE (b * exp(b, e - 1)) % M

\* ------------------------------------------------------ RAP trace table

\* TraceInfo::MAX_TRACE_WIDTH
MAX_TRACE_WIDTH == 255

\* TraceInfo::MIN_TRACE_LENGTH
MIN_TRACE_LENGTH == 8

\* TraceInfo::MAX_META_LENGTH
MAX_META_LENGTH == 65535

\* the content of a cell of uninit_vector that was never written
Uninit == -1

RECURSIVE is_power_of_two(_)
\* usize::is_power_of_two
is_power_of_two(n) ==
    /\ n > 0
    /\ \/ n = 1
       \/ n % 2 = 0 /\ is_power_of_two(n \div 2)

RECURSIVE log2(_)
\* math::log2 of a power of two: its number of trailing zero bits
log2(n) == IF n <= 1 THEN 0 ELSE 1 + log2(n \div 2)

\* utils::uninit_vector
uninit_vector(length) == [r \in 0..(length - 1) |-> Uninit]

\* Matrix::num_rows
num_rows(columns) == Cardinality(DOMAIN columns[0])

\* Matrix::update_row
matrix_update_row(columns, row_idx, row) ==
    [c \in DOMAIN columns |-> [columns[c] EXCEPT ![row_idx] = row[c]]]

\* Matrix::read_row_into: the content of the target after the call
matrix_read_row_into(columns, row_idx) == [c \in DOMAIN columns |-> columns[c][row_idx]]

NoTable == [layout |-> [main_width |-> 0, aux_widths |-> <<>>, aux_rands |-> <<>>],
            trace |-> <<>>, meta |-> <<>>]

\* RapTraceTable::with_meta without the upper limit on the width
with_meta_any_width(width, length, meta) ==
    IF \/ ~(width > 0)
       \/ ~(length >= MIN_TRACE_LENGTH)
       \/ ~is_power_of_two(length)
       \/ ~(log2(length) <= TWO_ADICITY)
       \/ ~(Len(meta) <= MAX_META_LENGTH)
    THEN [ok |-> FALSE, table |-> NoTable]
    ELSE [ok |-> TRUE,
          table |-> [layout |-> [main_width |-> width, aux_widths |-> <<3>>,
                                 aux_rands |-> <<5>>],
                     trace |-> [c \in 0..(width - 1) |-> uninit_vector(length)],
                     meta |-> meta]]

\* RapTraceTable::with_meta: the six assertions, then the allocation
with_meta(width, length, meta) ==
    IF \/ ~(width > 0)
       \/ ~(width <= MAX_TRACE_WIDTH)
       \/ ~(length >= MIN_TRACE_LENGTH)
       \/ ~is_power_of_two(length)
       \/ ~(log2(length) <= TWO_ADICITY)
       \/ ~(Len(meta) <= MAX_META_LENGTH)
    THEN [ok |-> FALSE, table |-> NoTable]
    ELSE [ok |-> TRUE,
          table |-> [layout |-> [main_width |-> width, aux_widths |-> <<3>>,
                                 aux_rands |-> <<5>>],
                     trace |-> [c \in 0..(width - 1) |-> uninit_vector(length)],
                     meta |-> meta]]

\* Trace::length
length(self) == num_rows(self.trace)

\* Trace::main_trace_width
main_trace_width(self) == self.layout.main_width

\* RapTraceTable::width
width(self) == main_trace_width(self)

\* RapTraceTable::get
get(self, column, step) == self.trace[column][step]

\* RapTraceTable::update_row
update_row(self, step, st) == [self EXCEPT !.trace = matrix_update_row(@, step, st)]

\* RapTraceTable::read_row_into
read_row_into(self, step) == matrix_read_row_into(self.trace, step)


\* the loop of RapTraceTable::fill ends before this value of i, one iteration early
fill_loop_end_short(self) == length(self) - 2

\* the loop of RapTraceTable::fill, `for i in 0..self.length() - 1`, ends before this i
fill_loop_end(self) == length(self) - 1

NoFrame == [current |-> <<>>, next |-> <<>>]

\* Trace::read_main_frame with a next row index that does not wrap
read_main_frame_no_wrap(self, row_idx) ==
    LET next_row_idx == row_idx + 1
    IN  IF row_idx >= length(self) \/ next_row_idx >= length(self)
        THEN [ok |-> FALSE, frame |-> NoFrame]
        ELSE [ok |-> TRUE,
              frame |-> [current |-> read_row_into(self, row_idx),
                         next |-> read_row_into(self, next_row_idx)]]

\* Trace::read_main_frame: the frame after the call; reading a row the matrix does
\* not have is an index out of bounds
read_main_frame(self, row_idx) ==
    LET next_row_idx == (row_idx + 1) % length(self)
    IN  IF row_idx >= length(self) \/ next_row_idx >= length(self)
        THEN [ok |-> FALSE, frame |-> NoFrame]
        ELSE [ok |-> TRUE,
              frame |-> [current |-> read_row_into(self, row_idx),
                         next |-> read_row_into(self, next_row_idx)]]

\* ------------------------------------------------------------- VDF AIR

\* vdf::ALPHA
ALPHA == 3

\* vdf::FORTY_TWO
FORTY_TWO == 42

NoAir == [trace_length |-> 0, seed |-> 0, result |-> 0]

\* VdfAir::new
VdfAirNew(trace_length, pub_inputs) ==
    [trace_length |-> trace_length, seed |-> pub_inputs.seed, result |-> pub_inputs.result]

\* VdfAir::get_assertions with the last assertion one step too far
get_assertions_past_end(self) ==
    LET last_step == self.trace_length
    IN  <<[column |-> 0, step |-> 0, value |-> self.seed],
          [column |-> 0, step |-> last_step, value |-> self.result]>>

\* VdfAir::get_assertions
get_assertions(self) ==
    LET last_step == self.trace_length - 1
    IN  <<[column |-> 0, step |-> 0, value |-> self.seed],
          [column |-> 0, step |-> last_step, value |-> self.result]>>

\* ------------------------------------------- closures handed to fill

InitKinds == {"seed", "offset"}

UpdateKinds == {"vdf", "step"}

Seeds == {1, 5}

NoClosures == [init |-> "none", seed |-> 0, update |-> "none"]

\* rescue_raps::CYCLE_LENGTH
CYCLE_LENGTH == 4

\* vdf::INV_ALPHA: ALPHA * INV_ALPHA = 1 modulo M - 1
INV_ALPHA == 75

\* the number of the seed row r of the bus columns: row 0, then the last row of each cycle
SeedIndex(r) == IF r = 0 THEN 0 ELSE (r + 1) \div CYCLE_LENGTH

\* the cell (r, c) of the trace that the closures of plan p write. Columns 2, 3 hold a
\* value pair per seed row; columns 6, 7 hold, by plan,
\*   0: the same pairs;                1: the pairs of seed rows 0 and 1 exchanged;
\*   2: the pairs of seed rows 1 and 2 exchanged;   3: the pairs, one of them changed;
\*   4: other pairs whose products with the challenge 1 agree.
\* Every other cell holds a value of its own.
PlanCell(p, r, c) ==
    LET j == SeedIndex(r)
        k == CASE p = 1 /\ j \in {0, 1} -> 1 - j
               [] p = 2 /\ j \in {1, 2} -> 3 - j
               [] OTHER -> j
        left == IF p = 4 /\ j \in {0, 1} THEN <<1 + 4 * j, 0>> ELSE <<j + 1, 2 * j + 5>>
        right == CASE p = 3 /\ j = 1 -> <<k + 2, 2 * k + 5>>
                   [] p = 4 /\ j \in {0, 1} -> <<2 + j, 0>>
                   [] OTHER -> <<k + 1, 2 * k + 5>>
    IN  IF r # 0 /\ r % CYCLE_LENGTH # CYCLE_LENGTH - 1 THEN (7 * r + c + 1) % M
        ELSE CASE c = 2 -> left[1]
               [] c = 3 -> left[2]
               [] c = 6 -> right[1]
               [] c = 7 -> right[2]
               [] OTHER -> (7 * r + c + 1) % M

\* the init closure: state[0] = seed, or every state[c] += seed + c, or row 0 of a plan
init(cl, st) ==
    CASE cl.init = "seed" -> [st EXCEPT ![0] = cl.seed]
      [] cl.init = "plan" -> [c \in DOMAIN st |-> PlanCell(cl.seed, 0, c)]
      [] OTHER -> [c \in DOMAIN st |-> (st[c] + cl.seed + c) % M]

\* the update closure: state[0] = state[0]^ALPHA + 42, or its inverse
\* state[0] = (state[0] - 42)^(1/ALPHA), or row i + 1 of a plan, or every
\* state[c] += i + c + 1
update(cl, i, st) ==
    CASE cl.update = "vdf" -> [st EXCEPT ![0] = (exp(st[0], ALPHA) + FORTY_TWO) % M]
      [] cl.update = "vdf_inv" ->
            [st EXCEPT ![0] = exp((st[0] + M - FORTY_TWO) % M, INV_ALPHA)]
      [] cl.update = "plan" -> [c \in DOMAIN st |-> PlanCell(cl.seed, i + 1, c)]
      [] OTHER -> [c \in DOMAIN st |-> (st[c] + i + c + 1) % M]

\* ------------------------------------------- the trace table scenario

Widths == {0, 1, 2, MAX_TRACE_WIDTH, MAX_TRACE_WIDTH + 1}

Lengths == {0, 1, 4, 7, 8, 9, 12, 16, 24, 32}

\* <<width, length, number of meta bytes>> handed to with_meta
WithMetaInputs ==
    (Widths \X Lengths \X {0, 3})
        \cup (Widths \X {7, 8} \X {MAX_META_LENGTH, MAX_META_LENGTH + 1})

InitT ==
    /\ tbl = NoTable
    /\ tstatus = "none"
    /\ targs = [width |-> 0, length |-> 0, meta_len |-> 0]
    /\ fpc = "idle"
    /\ fi = 0
    /\ state = <<>>
    /\ closures = NoClosures
    /\ calls = <<>>
    /\ writes = <<>>
    /\ frame = NoFrame
    /\ fres = "none"
    /\ fstep = 0
    /\ air = NoAir

\* RapTraceTable::with_meta(width, length, meta)
WithMeta(w, len, meta_len) ==
    /\ tstatus = "none"
    /\ LET r == with_meta(w, len, Fill(meta_len))
       IN  /\ tstatus' = IF r.ok THEN "ok" ELSE "panic"
           /\ tbl' = r.table
    /\ targs' = [width |-> w, length |-> len, meta_len |-> meta_len]
    /\ UNCHANGED <<fpc, fi, state, closures, calls, writes, frame, fres, fstep, air, cvars, fvars, xvars>>

\* fill(init, update) up to its loop: the zeroed state, init, update_row(0, state)
FillInit(cl) ==
    /\ tstatus = "ok"
    /\ fpc = "idle"
    /\ LET zeros == [c \in 0..(main_trace_width(tbl) - 1) |-> ZERO]
           st == init(cl, zeros)
       IN  /\ state' = st
           /\ tbl' = update_row(tbl, 0, st)
           /\ calls' = <<[fn |-> "init", i |-> 0, arg |-> zeros]>>
    /\ closures' = cl
    /\ writes' = <<0>>
    /\ fi' = 0
    /\ fpc' = "loop"
    /\ UNCHANGED <<tstatus, targs, frame, fres, fstep, air, cvars, fvars, xvars>>

\* one iteration of the loop of fill: update(i, state), update_row(i + 1, state)
FillStep ==
    /\ fpc = "loop"
    /\ fi < fill_loop_end(tbl)
    /\ LET st == update(closures, fi, state)
       IN  /\ state' = st
           /\ tbl' = update_row(tbl, fi + 1, st)
    /\ calls' = Append(calls, [fn |-> "update", i |-> fi, arg |-> state])
    /\ writes' = Append(writes, fi + 1)
    /\ fi' = fi + 1
    /\ UNCHANGED <<tstatus, targs, fpc, closures, frame, fres, fstep, air, cvars, fvars, xvars>>

\* the loop of fill is over and fill returns
FillReturn ==
    /\ fpc = "loop"
    /\ ~(fi < fill_loop_end(tbl))
    /\ fpc' = "done"
    /\ UNCHANGED <<tbl, tstatus, targs, fi, state, closures, calls, writes, frame, fres,
                   fstep, air, cvars, fvars, xvars>>

\* read_main_frame(row_idx, frame) on the filled table (cells are read only once fill
\* has initialized them): a first read at any step, then the frame is reused for the
\* steps that follow
ReadMainFrame(row_idx) ==
    /\ fpc = "done"
    /\ row_idx <= length(tbl)
    /\ fres = "none" \/ row_idx = fstep + 1
    /\ LET r == read_main_frame(tbl, row_idx)
       IN  /\ fres' = IF r.ok THEN "ok" ELSE "panic"
           /\ frame' = r.frame
    /\ fstep' = row_idx
    /\ UNCHANGED <<tbl, tstatus, targs, fpc, fi, state, closures, calls, writes, air, cvars, fvars, xvars>>

\* VdfAir::new for the filled one-column trace, with the public inputs seed and result
NewAir(pub_inputs) ==
    /\ fpc = "done"
    /\ width(tbl) = 1
    /\ air = NoAir
    /\ air' = VdfAirNew(length(tbl), pub_inputs)
    /\ UNCHANGED <<tbl, tstatus, targs, fpc, fi, state, closures, calls, writes, frame,
                   fres, fstep, cvars, fvars, xvars>>

RECURSIVE VdfIterate(_, _)
\* the n-fold iterate of x -> x^ALPHA + 42
VdfIterate(n, x) ==
    IF n = 0 THEN x ELSE VdfIterate(n - 1, (exp(x, ALPHA) + FORTY_TWO) % M)

\* the public inputs a VDF prover may claim: a seed, and a result for some trace length
PubInputs ==
    {[seed |-> s, result |-> r] :
        s \in Seeds,
        r \in {VdfIterate(n - 1, x) : n \in {8, 16}, x \in Seeds} \cup {ZERO}}

\* the steps read_main_frame is asked for
Steps == 0..16

NextT ==
    \/ \E in \in WithMetaInputs : WithMeta(in[1], in[2], in[3])
    \/ \E ik \in InitKinds, s \in Seeds, uk \in UpdateKinds :
           FillInit([init |-> ik, seed |-> s, update |-> uk])
    \/ FillStep
    \/ FillReturn
    \/ \E row_idx \in Steps : ReadMainFrame(row_idx)
    \/ \E pi \in PubInputs : NewAir(pi)

\* ------------------------------------------------- DefaultEvaluationFrame

\* widest frame the model builds
MaxFrameWidth == 2

\* number of rows of the columns handed to read_from
FrameTraceLength == 4

\* DefaultEvaluationFrame::new: num_rows = 2 zeroed rows of the AIR's main trace width
frame_new(num_columns) == [i \in 0..1 |-> [c \in 0..(num_columns - 1) |-> ZERO]]

\* DefaultEvaluationFrame::from_rows
frame_from_rows(rows) == rows

\* DefaultEvaluationFrame::read_from: the body is empty
frame_read_from(self, columns, step) == self

\* DefaultEvaluationFrame::row
row(self, index) == self[index]

\* DefaultEvaluationFrame::row_count
row_count(self) == Cardinality(DOMAIN self)

NoCall == [called |-> FALSE, columns |-> <<>>, step |-> 0, before |-> <<>>]

\* the rows from_rows is given: two rows of one width
FrameRows ==
    UNION {[0..1 -> [0..(w - 1) -> 0..2]] : w \in 1..MaxFrameWidth}

\* the trace columns read_from is given: num_columns columns of FrameTraceLength cells
FrameColumns(num_columns) ==
    {[c \in 0..(num_columns - 1) |->
         [r \in 0..(FrameTraceLength - 1) |-> (k * (r + 1) + c) % M]] : k \in {3, 7}}

InitF ==
    /\ data = <<>>
    /\ rcall = NoCall

\* DefaultEvaluationFrame::new(air)
FrameNew(num_columns) ==
    /\ data = <<>>
    /\ data' = frame_new(num_columns)
    /\ UNCHANGED <<rcall, cvars, tvars, xvars>>

\* DefaultEvaluationFrame::from_rows(rows)
FrameFromRows(rows) ==
    /\ data = <<>>
    /\ data' = frame_from_rows(rows)
    /\ UNCHANGED <<rcall, cvars, tvars, xvars>>

\* frame.read_from(columns, step), with one column per column of the frame
FrameReadFrom(columns, step) ==
    /\ data # <<>>
    /\ DOMAIN columns = DOMAIN data[0]
    /\ data' = frame_read_from(data, columns, step)
    /\ rcall' = [called |-> TRUE, columns |-> columns, step |-> step, before |-> data]
    /\ UNCHANGED <<cvars, tvars, xvars>>

NextF ==
    \/ \E n \in 1..MaxFrameWidth : FrameNew(n)
    \/ \E rows \in FrameRows : FrameFromRows(rows)
    \/ \E n \in 1..MaxFrameWidth, step \in 0..(FrameTraceLength - 1) :
           \E columns \in FrameColumns(n) : FrameReadFrom(columns, step)

\* ------------------------------------------------ auxiliary trace segment

\* FieldElement::inv: the inverse, and ZERO for ZERO
inv(x) == IF x = ZERO THEN ZERO ELSE CHOOSE y \in FieldElements : (x * y) % M = ONE

\* Trace::aux_trace_width: the columns of all auxiliary segments of the layout
aux_trace_width(self) ==
    LET RECURSIVE Sum(_)
        Sum(s) == IF s = <<>> THEN 0 ELSE Head(s) + Sum(Tail(s))
    IN  Sum(self.layout.aux_widths)

\* the test `index % CYCLE_LENGTH == 0`
is_seed_row_first(index) == index % CYCLE_LENGTH = 0

\* the test `index % CYCLE_LENGTH == CYCLE_LENGTH - 1` of the loop of build_aux_segment
is_seed_row(index) == index % CYCLE_LENGTH = CYCLE_LENGTH - 1

\* rand_elements[0] * row[a] + rand_elements[1] * row[b]
bus_value(rand_elements, r, a, b) == (rand_elements[0] * r[a] + rand_elements[1] * r[b]) % M

\* the product of a row from the bus values of the same row
product_step_same_row(aux_columns, rand_elements, index) ==
    LET num == (aux_columns[0][index] + rand_elements[2]) % M
        denom == (aux_columns[1][index] + rand_elements[2]) % M
    IN  (((aux_columns[2][index - 1] * num) % M) * inv(denom)) % M

\* the product of a row, multiplying by the denominator
product_step_no_inv(aux_columns, rand_elements, index) ==
    LET num == (aux_columns[0][index - 1] + rand_elements[2]) % M
        denom == (aux_columns[1][index - 1] + rand_elements[2]) % M
    IN  (((aux_columns[2][index - 1] * num) % M) * denom) % M

\* the last three statements of the loop of build_aux_segment: the value of
\* aux_columns[2][index]
product_step(aux_columns, rand_elements, index) ==
    LET num == (aux_columns[0][index - 1] + rand_elements[2]) % M
        denom == (aux_columns[1][index - 1] + rand_elements[2]) % M
    IN  (((aux_columns[2][index - 1] * num) % M) * inv(denom)) % M

\* one iteration of the loop of build_aux_segment: aux_columns after it
aux_step(self, rand_elements, aux_columns, index) ==
    LET seeded ==
            IF is_seed_row(index)
            THEN LET r == read_row_into(self, index)
                 IN  [aux_columns EXCEPT
                        ![0][index] = bus_value(rand_elements, r, 2, 3),
                        ![1][index] = bus_value(rand_elements, r, 6, 7)]
            ELSE aux_columns
    IN  [seeded EXCEPT ![2][index] = product_step(seeded, rand_elements, index)]

RECURSIVE aux_loop(_, _, _, _)
\* the loop `for index in 1..self.length()` of build_aux_segment, from index on
aux_loop(self, rand_elements, aux_columns, index) ==
    IF index >= length(self) THEN aux_columns
    ELSE aux_loop(self, rand_elements,
                  aux_step(self, rand_elements, aux_columns, index), index + 1)

NoMatrix == <<>>

\* RapTraceTable::build_aux_segment: None, Some(matrix), or the panic of an index
\* out of bounds (rows are indexed up to 7, rand_elements up to 2, aux_columns up to 2)
build_aux_segment(self, aux_segments, rand_elements) ==
    IF aux_segments # <<>> THEN [tag |-> "None", matrix |-> NoMatrix]
    ELSE IF \/ ~(7 < width(self))
            \/ ~(2 < Cardinality(DOMAIN rand_elements))
            \/ ~(2 < aux_trace_width(self))
    THEN [tag |-> "panic", matrix |-> NoMatrix]
    ELSE LET r == read_row_into(self, 0)
             zeros == [c \in 0..(aux_trace_width(self) - 1) |->
                          [i \in 0..(length(self) - 1) |-> ZERO]]
             first == [zeros EXCEPT ![0][0] = bus_value(rand_elements, r, 2, 3),
                                    ![1][0] = bus_value(rand_elements, r, 6, 7),
                                    ![2][0] = ONE]
         IN  [tag |-> "Some", matrix |-> aux_loop(self, rand_elements, first, 1)]

\* ------------------------------------- the auxiliary segment scenario

\* widths of the tables the auxiliary segment is built for
AuxWidths == {1, 7, 8, 9}

AuxLengths == {8, 16}

\* the traces the closures write
Plans == 0..4

\* the random elements handed to build_aux_segment: five, as the layout asks for, or
\* fewer than the three the code reads
AuxRands ==
    {[k \in 0..4 |-> CASE k = 0 -> p[1] [] k = 1 -> p[2] [] k = 2 -> r [] OTHER -> 9] :
        p \in {<<1, 0>>, <<2, 1>>}, r \in {0, 1, 3}}
    \cup {[k \in 0..1 |-> k + 1]}

InitA ==
    /\ auxres = "none"
    /\ aux = NoMatrix
    /\ auxargs = [segments |-> 0, rand_elements |-> <<>>]

\* build_aux_segment(&[], rand_elements) on the filled table
BuildAuxSegment(rand_elements) ==
    /\ fpc = "done"
    /\ auxres = "none"
    /\ LET r == build_aux_segment(tbl, <<>>, rand_elements)
       IN  /\ auxres' = r.tag
           /\ aux' = r.matrix
    /\ auxargs' = [segments |-> 0, rand_elements |-> rand_elements]
    /\ UNCHANGED <<tvars, cvars, fvars, bvars, gvars, pvars, evars>>

\* build_aux_segment(&[aux], rand_elements): the call that follows a successful one,
\* given the segment that one returned
BuildAuxSegmentAgain(rand_elements) ==
    /\ fpc = "done"
    /\ auxres = "Some"
    /\ LET r == build_aux_segment(tbl, <<aux>>, rand_elements)
       IN  auxres' = r.tag
    /\ auxargs' = [segments |-> 1, rand_elements |-> rand_elements]
    /\ UNCHANGED <<aux, tvars, cvars, fvars, bvars, gvars, pvars, evars>>

NextA ==
    \/ \E w \in AuxWidths, len \in AuxLengths : WithMeta(w, len, 0)
    \/ \E p \in Plans : FillInit([init |-> "plan", seed |-> p, update |-> "plan"])
    \/ FillStep
    \/ FillReturn
    \/ \E rand_elements \in AuxRands : BuildAuxSegment(rand_elements)
    \/ \E rand_elements \in AuxRands : BuildAuxSegmentAgain(rand_elements)

\* ------------------------------------------- byte codec, full-width cursor

\* a usize is four 16-bit limbs, least significant first (usize::BITS = 64)
LimbBase == 65536

UsizeLimbs == 4

\* usize::MAX
usize_max == [k \in 1..UsizeLimbs |-> LimbBase - 1]

\* the usize of a small number
usize_of(n) == [k \in 1..UsizeLimbs |-> CASE k = 1 -> n % LimbBase
                                         [] k = 2 -> (n \div LimbBase) % LimbBase
                                         [] OTHER -> 0]

\* the small number of a usize that holds one
usize_to_index(a) == a[1] + LimbBase * a[2]

\* the carry into limb k of a + b
RECURSIVE carry_into(_, _, _)
carry_into(a, b, k) ==
    IF k = 1 THEN 0 ELSE (a[k - 1] + b[k - 1] + carry_into(a, b, k - 1)) \div LimbBase

\* usize::overflowing_add: the wrapped sum and whether it wrapped
overflowing_add(a, b) ==
    [val |-> [k \in 1..UsizeLimbs |-> (a[k] + b[k] + carry_into(a, b, k)) % LimbBase],
     overflow |-> carry_into(a, b, UsizeLimbs + 1) = 1]

\* a > b on usize
usize_gt(a, b) ==
    \E k \in 1..UsizeLimbs : a[k] > b[k] /\ \A j \in (k + 1)..UsizeLimbs : a[j] = b[j]

\* a >= b on usize
usize_ge(a, b) == a = b \/ usize_gt(a, b)

\* <[u8]>::len
slice_len(self) == usize_of(Len(self))

\* u32::from_le_bytes, as two 16-bit limbs
from_le_bytes_u32(bytes) == <<bytes[1] + 256 * bytes[2], bytes[3] + 256 * bytes[4]>>

\* u64::from_le_bytes, as four 16-bit limbs
from_le_bytes_u64(bytes) ==
    <<bytes[1] + 256 * bytes[2], bytes[3] + 256 * bytes[4],
      bytes[5] + 256 * bytes[6], bytes[7] + 256 * bytes[8]>>

\* the outcomes of a read: Ok(val) with the cursor moved, Err(UnexpectedEOF) with the
\* cursor where it was, or a panic. A value is the sequence of its 16-bit limbs, least
\* significant first (one limb for u8 and u16), a vector the sequence of its bytes
ReadOk(val, p) == [outcome |-> "Ok", val |-> val, pos |-> p]

ReadEOF(p) == [outcome |-> "UnexpectedEOF", val |-> <<>>, pos |-> p]

ReadPanic(p) == [outcome |-> "panic", val |-> <<>>, pos |-> p]

\* `let end_pos = *pos + n; if end_pos > self.len() { return Err(UnexpectedEOF) }`
\* followed by `self[*pos..end_pos]`: the addition panics on overflow in a build with
\* overflow checks and wraps in a build without them; the slice panics when its start
\* is past its end. The bytes of the slice, or the outcome that ends the read.
read_slice(self, p, n, overflow_checks) ==
    LET sum == overflowing_add(p, n)
        end_pos == sum.val
    IN  IF sum.overflow /\ overflow_checks THEN ReadPanic(p)
        ELSE IF usize_gt(end_pos, slice_len(self)) THEN ReadEOF(p)
        ELSE IF usize_gt(p, end_pos) THEN ReadPanic(p)
        ELSE ReadOk(SubSeq(self, usize_to_index(p) + 1, usize_to_index(end_pos)), end_pos)

\* ByteReader::read_u8 for [u8]
read_u8_at(self, p) ==
    IF usize_ge(p, slice_len(self)) THEN ReadEOF(p)
    ELSE ReadOk(<<self[usize_to_index(p) + 1]>>, overflowing_add(p, usize_of(1)).val)

\* ByteReader::read_u16 for [u8], with a cursor of full width
read_u16_at(self, p, overflow_checks) ==
    LET s == read_slice(self, p, usize_of(2), overflow_checks)
    IN  IF s.outcome = "Ok" THEN ReadOk(<<from_le_bytes_u16(s.val)>>, s.pos) ELSE s

\* ByteReader::read_u32 for [u8]
read_u32_at(self, p, overflow_checks) ==
    LET s == read_slice(self, p, usize_of(4), overflow_checks)
    IN  IF s.outcome = "Ok" THEN ReadOk(from_le_bytes_u32(s.val), s.pos) ELSE s

\* ByteReader::read_u64 for [u8]
read_u64_at(self, p, overflow_checks) ==
    LET s == read_slice(self, p, usize_of(8), overflow_checks)
    IN  IF s.outcome = "Ok" THEN ReadOk(from_le_bytes_u64(s.val), s.pos) ELSE s

\* ByteReader::read_u8_vec for [u8], with a cursor and a length of full width
read_u8_vec_at(self, p, len, overflow_checks) == read_slice(self, p, len, overflow_checks)

\* ------------------------------------------------- the byte codec scenario

\* longest input the reads are given
MaxSource == 9

\* the inputs: n bytes, some of them above 127
CodecSource(n) == [i \in 1..n |-> (37 * i + 200) % 256]

CodecSources == {CodecSource(n) : n \in {0, 1, 2, 4, 8, MaxSource}}

\* cursor values: inside and just past the inputs, far past them, and the last values
\* a usize holds
Cursors ==
    {usize_of(n) : n \in 0..(MaxSource + 2)}
        \cup {[usize_of(0) EXCEPT ![3] = 1]}
        \cup {[usize_max EXCEPT ![1] = LimbBase - 1 - n] : n \in 0..8}

\* the lengths asked of read_u8_vec
VecLens == {usize_of(n) : n \in {0, 1, 3, 9, 10}} \cup {usize_max}

NoRead == [fn |-> "none", width |-> usize_of(0), before |-> usize_of(0),
           outcome |-> "none", val |-> <<>>]

InitB ==
    /\ bsrc = <<>>
    /\ bopen = FALSE
    /\ bpos = usize_of(0)
    /\ bres = NoRead

\* the caller picks the bytes to read from
Open(source) ==
    /\ ~bopen
    /\ bopen' = TRUE
    /\ bsrc' = source
    /\ UNCHANGED <<bpos, bres, cvars, tvars, fvars, avars, gvars, pvars, evars>>

\* the caller sets its cursor before its first read
Seek(p) ==
    /\ bopen
    /\ bres = NoRead
    /\ bpos = usize_of(0)
    /\ bpos # p
    /\ bpos' = p
    /\ UNCHANGED <<bsrc, bopen, bres, cvars, tvars, fvars, avars, gvars, pvars, evars>>

\* read_u8(&mut pos)
ReadU8 ==
    /\ bopen
    /\ bres.outcome # "panic"
    /\ LET r == read_u8_at(bsrc, bpos)
       IN  /\ bpos' = r.pos
           /\ bres' = [fn |-> "read_u8", width |-> usize_of(1), before |-> bpos,
                       outcome |-> r.outcome, val |-> r.val]
    /\ UNCHANGED <<bsrc, bopen, cvars, tvars, fvars, avars, gvars, pvars, evars>>

\* read_u16(&mut pos)
ReadU16(overflow_checks) ==
    /\ bopen
    /\ bres.outcome # "panic"
    /\ LET r == read_u16_at(bsrc, bpos, overflow_checks)
       IN  /\ bpos' = r.pos
           /\ bres' = [fn |-> "read_u16", width |-> usize_of(2), before |-> bpos,
                       outcome |-> r.outcome, val |-> r.val]
    /\ UNCHANGED <<bsrc, bopen, cvars, tvars, fvars, avars, gvars, pvars, evars>>

\* read_u32(&mut pos)
ReadU32(overflow_checks) ==
    /\ bopen
    /\ bres.outcome # "panic"
    /\ LET r == read_u32_at(bsrc, bpos, overflow_checks)
       IN  /\ bpos' = r.pos
           /\ bres' = [fn |-> "read_u32", width |-> usize_of(4), before |-> bpos,
                       outcome |-> r.outcome, val |-> r.val]
    /\ UNCHANGED <<bsrc, bopen, cvars, tvars, fvars, avars, gvars, pvars, evars>>

\* read_u64(&mut pos)
ReadU64(overflow_checks) ==
    /\ bopen
    /\ bres.outcome # "panic"
    /\ LET r == read_u64_at(bsrc, bpos, overflow_checks)
       IN  /\ bpos' = r.pos
           /\ bres' = [fn |-> "read_u64", width |-> usize_of(8), before |-> bpos,
                       outcome |-> r.outcome, val |-> r.val]
    /\ UNCHANGED <<bsrc, bopen, cvars, tvars, fvars, avars, gvars, pvars, evars>>

\* read_u8_vec(&mut pos, len)
ReadU8Vec(len, overflow_checks) ==
    /\ bopen
    /\ bres.outcome # "panic"
    /\ LET r == read_u8_vec_at(bsrc, bpos, len, overflow_checks)
       IN  /\ bpos' = r.pos
           /\ bres' = [fn |-> "read_u8_vec", width |-> len, before |-> bpos,
                       outcome |-> r.outcome, val |-> r.val]
    /\ UNCHANGED <<bsrc, bopen, cvars, tvars, fvars, avars, gvars, pvars, evars>>

NextB ==
    \/ \E source \in CodecSources : Open(source)
    \/ \E p \in Cursors : Seek(p)
    \/ ReadU8
    \/ \E oc \in BOOLEAN : ReadU16(oc)
    \/ \E oc \in BOOLEAN : ReadU32(oc)
    \/ \E oc \in BOOLEAN : ReadU64(oc)
    \/ \E len \in VecLens, oc \in BOOLEAN : ReadU8Vec(len, oc)

\* ------------------------------------------- grouping and flattening

\* a Vec<T>: its buffer of cap cells, of which the first len are its elements
NoVec == [buf |-> <<>>, len |-> 0, cap |-> 0]

\* the elements of a Vec<T> or of a slice of it
elements(v) == [k \in 0..(v.len - 1) |-> v.buf[k]]

\* the i-th [T; N] of a buffer read as a buffer of [T; N]
chunk_at(buf, N, i) == [j \in 0..(N - 1) |-> buf[i * N + j]]

\* the elements of a Vec<[T; N]> or of a slice of it
chunks(v, N) == [i \in 0..(v.len - 1) |-> chunk_at(v.buf, N, i)]

\* group_vector_elements without its assertion
group_vector_elements_no_assert(source, N) ==
    IF N = 0 THEN [ok |-> FALSE, vec |-> NoVec]
    ELSE [ok |-> TRUE,
          vec |-> [buf |-> source.buf, len |-> source.len \div N, cap |-> source.cap \div N]]

\* utils::group_vector_elements: the assertion (a remainder by N = 0 panics as well),
\* then the same buffer with len / N and capacity / N
group_vector_elements(source, N) ==
    IF N = 0 \/ source.len % N # 0 THEN [ok |-> FALSE, vec |-> NoVec]
    ELSE [ok |-> TRUE,
          vec |-> [buf |-> source.buf, len |-> source.len \div N, cap |-> source.cap \div N]]

\* utils::group_slice_elements: a slice has no capacity, its cells end at its length
group_slice_elements(source, N) ==
    IF N = 0 \/ source.len % N # 0 THEN [ok |-> FALSE, vec |-> NoVec]
    ELSE [ok |-> TRUE,
          vec |-> [buf |-> source.buf, len |-> source.len \div N, cap |-> source.len \div N]]

\* utils::flatten_slice_elements
flatten_slice_elements(source, N) ==
    [buf |-> source.buf, len |-> source.len * N, cap |-> source.len * N]

\* utils::flatten_vector_elements
flatten_vector_elements(source, N) ==
    [buf |-> source.buf, len |-> source.len * N, cap |-> source.cap * N]

\* ------------------------------------- the grouping scenario

\* longest vector that is grouped
MaxElements == 8

\* largest chunk size N
MaxChunk == 4

\* the k-th element of the vectors: 0, 1, 2, ... or values in another order
ElementOf(pattern, k) == IF pattern = 0 THEN k ELSE (5 * k + 3) % 11

\* a vector of n elements in a buffer of n + spare cells
VecOf(pattern, n, spare) ==
    [buf |-> [k \in 0..(n + spare - 1) |-> IF k < n THEN ElementOf(pattern, k) ELSE Uninit],
     len |-> n, cap |-> n + spare]

NoGrouping == [fn |-> "none", N |-> 0, outcome |-> "none", grouped |-> NoVec,
               flat |-> NoVec, flattened |-> FALSE, dropped |-> "no"]

InitG ==
    /\ gvec = NoVec
    /\ gres = NoGrouping

\* the caller builds the vector
MakeVector(pattern, n, spare) ==
    /\ gvec = NoVec
    /\ gres = NoGrouping
    /\ n + spare > 0
    /\ gvec' = VecOf(pattern, n, spare)
    /\ UNCHANGED <<gres, cvars, tvars, fvars, avars, bvars, pvars, evars>>

\* group_vector_elements::<T, N>(source)
GroupVector(N) ==
    /\ gvec # NoVec
    /\ gres = NoGrouping
    /\ LET r == group_vector_elements(gvec, N)
       IN  gres' = [gres EXCEPT !.fn = "group_vector_elements", !.N = N,
                                !.outcome = IF r.ok THEN "Ok" ELSE "panic",
                                !.grouped = r.vec]
    /\ UNCHANGED <<gvec, cvars, tvars, fvars, avars, bvars, pvars, evars>>

\* group_slice_elements::<T, N>(&source)
GroupSlice(N) ==
    /\ gvec # NoVec
    /\ gres = NoGrouping
    /\ LET r == group_slice_elements(gvec, N)
       IN  gres' = [gres EXCEPT !.fn = "group_slice_elements", !.N = N,
                                !.outcome = IF r.ok THEN "Ok" ELSE "panic",
                                !.grouped = r.vec]
    /\ UNCHANGED <<gvec, cvars, tvars, fvars, avars, bvars, pvars, evars>>

\* flatten_vector_elements(grouped) on the vector group_vector_elements returned
FlattenVector ==
    /\ gres.fn = "group_vector_elements"
    /\ gres.outcome = "Ok"
    /\ ~gres.flattened
    /\ gres.dropped = "no"
    /\ gres' = [gres EXCEPT !.flat = flatten_vector_elements(gres.grouped, gres.N),
                            !.flattened = TRUE]
    /\ UNCHANGED <<gvec, cvars, tvars, fvars, avars, bvars, pvars, evars>>

\* flatten_slice_elements(&grouped) on the slice group_slice_elements returned
FlattenSlice ==
    /\ gres.fn = "group_slice_elements"
    /\ gres.outcome = "Ok"
    /\ ~gres.flattened
    /\ gres' = [gres EXCEPT !.flat = flatten_slice_elements(gres.grouped, gres.N),
                            !.flattened = TRUE]
    /\ UNCHANGED <<gvec, cvars, tvars, fvars, avars, bvars, pvars, evars>>

\* the Vec<[T; N]> of Vec::from_raw_parts(p, len, cap) is dropped: its buffer is freed
\* with the size cap * N cells; when that is not the size it was allocated with, the
\* behaviour is undefined
DropGrouped(how) ==
    /\ gres.fn = "group_vector_elements"
    /\ gres.outcome = "Ok"
    /\ ~gres.flattened
    /\ gres.dropped = "no"
    /\ how = "undefined" => gres.grouped.cap * gres.N # gvec.cap
    /\ gres' = [gres EXCEPT !.dropped = how]
    /\ UNCHANGED <<gvec, cvars, tvars, fvars, avars, bvars, pvars, evars>>

NextG ==
    \/ \E pattern \in {0, 1}, n \in 0..MaxElements, spare \in 0..2 :
           MakeVector(pattern, n, spare)
    \/ \E N \in 0..MaxChunk : GroupVector(N)
    \/ \E N \in 0..MaxChunk : GroupSlice(N)
    \/ FlattenVector
    \/ FlattenSlice
    \/ \E how \in {"freed", "undefined"} : DropGrouped(how)

\* ------------------------------------------------------- transpose_slice

\* the statement of the closure without the stride of the columns
cell_value_no_stride(source, rows, i, j) == source[i + j]

\* `element[j] = source[i + j * row_count]`: the value written to cell j of row i
cell_value(source, rows, i, j) == source[i + j * rows]

\* transpose_slice up to iter_mut!: the division (which panics for N = 0), the
\* assertion, and the result of row_count uninitialized rows
transpose_begin(source, N) ==
    IF N = 0 THEN [ok |-> FALSE, row_count |-> 0, result |-> <<>>]
    ELSE LET n == Cardinality(DOMAIN source)
             rows == n \div N
         IN  IF rows * N # n THEN [ok |-> FALSE, row_count |-> 0, result |-> <<>>]
             ELSE [ok |-> TRUE, row_count |-> rows,
                   result |-> chunks(group_vector_elements(
                                  [buf |-> uninit_vector(rows * N),
                                   len |-> rows * N, cap |-> rows * N], N).vec, N)]

\* ------------------------------------- the transposition scenario

\* longest source that is transposed
MaxCells == 6

\* the workers iter_mut! hands the rows of the result to
Workers == {1, 2}

NoWorker == 0

\* the source slices: n distinct values
TransposeSource(n) == [k \in 0..(n - 1) |-> 10 + k]

NoSource == [source |-> <<>>, N |-> 0, row_count |-> 0]

InitP ==
    /\ psrc = NoSource
    /\ presult = <<>>
    /\ powner = <<>>
    /\ pcount = <<>>
    /\ ppc = "idle"

\* the rows worker w has taken and not finished
Unfinished(w) ==
    {i \in DOMAIN powner : powner[i] = w /\ \E j \in DOMAIN pcount[i] : pcount[i][j] = <<>>}

\* transpose_slice::<T, N>(source) up to the parallel loop
TransposeBegin(n, N) ==
    /\ ppc = "idle"
    /\ LET r == transpose_begin(TransposeSource(n), N)
       IN  /\ ppc' = IF r.ok THEN "running" ELSE "panic"
           /\ psrc' = [source |-> TransposeSource(n), N |-> N, row_count |-> r.row_count]
           /\ presult' = r.result
           /\ powner' = [i \in DOMAIN r.result |-> NoWorker]
           /\ pcount' = [i \in DOMAIN r.result |-> [j \in 0..(N - 1) |-> <<>>]]
    /\ UNCHANGED <<cvars, tvars, fvars, avars, bvars, gvars, evars>>

\* the iterator hands the next item (i, element) to a worker that is free
TakeRow(w, i) ==
    /\ ppc = "running"
    /\ i \in DOMAIN powner
    /\ powner[i] = NoWorker
    /\ Unfinished(w) = {}
    /\ powner' = [powner EXCEPT ![i] = w]
    /\ UNCHANGED <<psrc, presult, pcount, ppc, cvars, tvars, fvars, avars, bvars, gvars, evars>>

\* one iteration of `for j in 0..N` of the closure, run by worker w on its row
WriteCell(w) ==
    /\ ppc = "running"
    /\ Unfinished(w) # {}
    /\ LET i == CHOOSE r \in Unfinished(w) : TRUE
           j == CHOOSE c \in DOMAIN pcount[i] :
                    /\ pcount[i][c] = <<>>
                    /\ \A b \in DOMAIN pcount[i] : b < c => pcount[i][b] # <<>>
       IN  /\ presult' = [presult EXCEPT ![i][j] =
                              cell_value(psrc.source, psrc.row_count, i, j)]
           /\ pcount' = [pcount EXCEPT ![i][j] = Append(@, w)]
    /\ UNCHANGED <<psrc, powner, ppc, cvars, tvars, fvars, avars, bvars, gvars, evars>>

\* every item has been handled and transpose_slice returns the result
TransposeReturn ==
    /\ ppc = "running"
    /\ \A i \in DOMAIN powner : powner[i] # NoWorker
    /\ \A w \in Workers : Unfinished(w) = {}
    /\ ppc' = "done"
    /\ UNCHANGED <<psrc, presult, powner, pcount, cvars, tvars, fvars, avars, bvars, gvars, evars>>

NextP ==
    \/ \E n \in 0..MaxCells, N \in 0..MaxChunk : TransposeBegin(n, N)
    \/ \E w \in Workers, i \in 0..MaxCells : TakeRow(w, i)
    \/ \E w \in Workers : WriteCell(w)
    \/ TransposeReturn

\* ------------------------------------------- VDF transition constraint

\* EvaluationFrame::current
frame_current(self) == row(self, 0)

\* EvaluationFrame::next
frame_next(self) == row(self, 1)

\* the subtraction of two field elements
sub(a, b) == (a + M - b) % M

\* an evaluate_transition that steps from the current state to the next one
evaluate_transition_forward(self, eframe, periodic_values, result) ==
    LET current_state == frame_current(eframe)[0]
        next_state == frame_next(eframe)[0]
    IN  [result EXCEPT ![0] = sub(next_state, (exp(current_state, ALPHA) + FORTY_TWO) % M)]

\* VdfAir::evaluate_transition: result after the call
evaluate_transition(self, eframe, periodic_values, result) ==
    LET current_state == frame_current(eframe)[0]
        next_state == frame_next(eframe)[0]
    IN  [result EXCEPT ![0] = sub(current_state, (exp(next_state, ALPHA) + FORTY_TWO) % M)]

\* ------------------------------------- the transition constraint scenario

NoEvaluation == [called |-> FALSE, step |-> 0, change |-> 0, frame |-> <<>>,
                 prior |-> <<>>, result |-> <<>>]

InitE == eres = NoEvaluation

\* evaluate_transition on the frame (row step, row step + 1) of the filled trace, the
\* next row as it is (change = 0) or with a non-zero change added, with a result slice
\* that holds prior
EvaluateTransition(step, change, prior) ==
    /\ fpc = "done"
    /\ width(tbl) = 1
    /\ step < length(tbl)
    /\ LET r == read_main_frame(tbl, step)
           eframe == frame_from_rows(
                        [k \in 0..1 |->
                            IF k = 0 THEN r.frame.current
                            ELSE [c \in DOMAIN r.frame.next |->
                                     (r.frame.next[c] + change) % M]])
           before == [k \in 0..0 |-> prior]
       IN  eres' = [called |-> TRUE, step |-> step, change |-> change, frame |-> eframe,
                    prior |-> before,
                    result |-> evaluate_transition(NoAir, eframe, <<>>, before)]
    /\ UNCHANGED <<tvars, cvars, fvars, avars, bvars, gvars, pvars>>

NextV ==
    \/ \E len \in {8, 16} : WithMeta(1, len, 0)
    \/ \E s \in Seeds, uk \in {"vdf", "vdf_inv"} :
           FillInit([init |-> "seed", seed |-> s, update |-> uk])
    \/ FillStep
    \/ FillReturn
    \/ \E step \in Steps, change \in {0, 1, 7}, prior \in {ZERO, ONE} :
           EvaluateTransition(step, change, prior)

\* --------------------------------------------------------- specifications

Init == InitC /\ InitT /\ InitF /\ InitA /\ InitB /\ InitG /\ InitP /\ InitE

SpecCommitments == Init /\ [][NextC]_vars

SpecTrace == Init /\ [][NextT]_vars

SpecFrame == Init /\ [][NextF]_vars

SpecAux == Init /\ [][NextA]_vars

SpecCodec == Init /\ [][NextB]_vars

SpecGroup == Init /\ [][NextG]_vars

SpecTranspose == Init /\ [][NextP]_vars

SpecVdf == Init /\ [][NextV]_vars

\* ------------------------------------------------- claims on Commitments

\* the record went new -> write_into -> read_from(pos 0) -> parse, nothing added or lost
RoundTripDone ==
    /\ cpc = "parsed"
    /\ origin = "new"
    /\ roots.added = <<>>
    /\ wres = "ok"
    /\ ~cut
    /\ rres = "Ok"

ParsedOriginal ==
    /\ pres.tag = "Ok"
    /\ pres.trace_root = roots.trace_root
    /\ pres.constraint_root = roots.constraint_root
    /\ pres.fri_roots = roots.fri_roots

\* C1 as stated: new with k FRI roots, write_into, read_from at 0, parse(k) gives back
\* the original (trace_root, constraint_root, fri_roots).
C1_RoundTripSameCount ==
    (RoundTripDone /\ parg = Len(roots.fri_roots)) => ParsedOriginal

\* C1 amended: new with k + 1 FRI roots (the k layer roots and the FRI remainder
\* commitment), write_into, read_from at 0, parse(k) gives back the original
\* (trace_root, constraint_root, fri_roots).
C1_RoundTrip ==
    (RoundTripDone /\ parg + 1 = Len(roots.fri_roots)) => ParsedOriginal

C1_Witness ==
    /\ RoundTripDone
    /\ parg = 1
    /\ Len(roots.fri_roots) = 2
    /\ roots.trace_root # roots.constraint_root
    /\ ParsedOriginal

\* what deserializing and then parsing ended with
Outcome == IF rres = "UnexpectedEOF" THEN "UnexpectedEOF" ELSE pres.tag

\* deserialization of a record that lost its last byte has run to its end
TruncatedDone == cut /\ cpc \in {"readfailed", "parsed"}

\* C2 as stated: a serialized record that lost its last byte, deserialized and parsed,
\* ends with the byte-count-mismatch error TooManyCommitmentBytes.
C2_TruncationIsCountMismatch ==
    TruncatedDone => Outcome = "TooManyCommitmentBytes"

\* C2 amended: a serialized record that lost its last byte is refused by read_from
\* with the end-of-input error UnexpectedEOF; parse is never reached, so there is
\* neither a parsed triple nor a byte-count-mismatch error.
C2_TruncationIsEndOfInput ==
    (cut /\ cpc # "written") =>
        /\ cpc = "readfailed"
        /\ rres = "UnexpectedEOF"
        /\ pres.tag = "none"

C2_Witness ==
    /\ cut
    /\ cpc = "readfailed"
    /\ origin = "new"
    /\ Len(roots.fri_roots) = 1
    /\ rres = "UnexpectedEOF"

\* C3: parse returns Ok only when the digests it reads take exactly the stored bytes;
\* when the blob holds more, it fails with TooManyCommitmentBytes(bytes read, bytes
\* stored); it never returns a triple while stored bytes are left over.
C3_ParseConsumesAll ==
    cpc = "parsed" =>
        LET taken == (parg + 3) * DigestSize
        IN  /\ pres.tag = "Ok" => taken = Len(comm)
            /\ Len(comm) > taken =>
                   /\ pres.tag = "TooManyCommitmentBytes"
                   /\ pres.found = taken
                   /\ pres.expected = Len(comm)

C3_Witness ==
    /\ cpc = "parsed"
    /\ parg = 0
    /\ Len(comm) = 3 * DigestSize + 1
    /\ pres.tag = "TooManyCommitmentBytes"
    /\ pres.found = 3 * DigestSize

\* every digest new and add were given, in call order
AllRoots == <<roots.trace_root, roots.constraint_root>> \o roots.fri_roots \o roots.added

\* C4: after new with k FRI roots and m add calls, write_into emits a 2-byte
\* little-endian length, then trace_root, constraint_root, the k FRI roots and the m
\* added digests in order; the blob has (2 + k + m) * digest_size bytes and the prefix
\* is that number.
C4_Layout ==
    (origin = "new" /\ cpc = "written" /\ ~cut) =>
        LET n == 2 + Len(roots.fri_roots) + Len(roots.added)
        IN  /\ Len(comm) = n * DigestSize
            /\ Len(target) = 2 + n * DigestSize
            /\ target[1] = (n * DigestSize) % 256
            /\ target[2] = (n * DigestSize) \div 256
            /\ \A j \in 1..n : \A i \in 1..DigestSize :
                   target[2 + (j - 1) * DigestSize + i] = AllRoots[j][i]

C4_Witness ==
    /\ origin = "new"
    /\ cpc = "written"
    /\ ~cut
    /\ Len(roots.fri_roots) = 2
    /\ Len(roots.added) = 2
    /\ roots.added[1] # roots.added[2]

\* C5: write_into serializes every record whose blob has 0..65535 bytes, aborts for a
\* longer one, and never emits a prefix that differs from the number of bytes that
\* follow.
C5_SixteenBitBound ==
    (cpc \in {"written", "panic"} /\ ~cut) =>
        /\ Len(comm) <= U16Max =>
               /\ wres = "ok"
               /\ from_le_bytes_u16(SubSeq(target, 1, 2)) = Len(target) - 2
               /\ Len(target) - 2 = Len(comm)
        /\ Len(comm) > U16Max => wres = "panic"

\* ------------------------------------------------ claims on the trace table

TraceRow(r) == [c \in 0..(width(tbl) - 1) |-> get(tbl, c, r)]

\* C7: fill calls init once on an all-zero buffer and stores it as row 0, then for
\* i = 0, 1, ..., L-2 in increasing order calls update(i, state) on the buffer that
\* produced row i and stores the result as row i+1; update is called exactly L-1
\* times, no row is written twice or skipped, and when fill returns every cell is
\* initialized.
C7_FillInOrder ==
    fpc \in {"loop", "done"} =>
        /\ writes = [k \in 1..(fi + 1) |-> k - 1]
        /\ Len(calls) = fi + 1
        /\ calls[1] = [fn |-> "init", i |-> 0,
                       arg |-> [c \in 0..(width(tbl) - 1) |-> ZERO]]
        /\ TraceRow(0) = init(closures, [c \in 0..(width(tbl) - 1) |-> ZERO])
        /\ \A k \in 1..fi :
               /\ calls[k + 1] = [fn |-> "update", i |-> k - 1, arg |-> TraceRow(k - 1)]
               /\ TraceRow(k) = update(closures, k - 1, TraceRow(k - 1))
        /\ \A r \in (fi + 1)..(length(tbl) - 1) :
               \A c \in 0..(width(tbl) - 1) : get(tbl, c, r) = Uninit
        /\ fpc = "done" =>
               /\ fi = length(tbl) - 1
               /\ Cardinality({k \in 1..Len(calls) : calls[k].fn = "update"})
                      = length(tbl) - 1
               /\ \A r \in 0..(length(tbl) - 1) :
                      \A c \in 0..(width(tbl) - 1) : get(tbl, c, r) \in FieldElements

C7_Witness ==
    /\ fpc = "done"
    /\ length(tbl) = 16
    /\ width(tbl) = 2
    /\ closures.update = "step"
    /\ Len(writes) = 16
    /\ TraceRow(15) # TraceRow(14)

\* C8: for a filled table of length L and every step s in 0..L-1, read_main_frame(s,
\* frame) sets the current row to trace row s and the next row to trace row
\* (s+1) mod L; at s = L-1 the next row is row 0 and no out-of-range row is read.
C8_FrameWraps ==
    (fres # "none" /\ fstep \in 0..(length(tbl) - 1)) =>
        /\ fres = "ok"
        /\ frame.current = TraceRow(fstep)
        /\ frame.next = TraceRow(IF fstep = length(tbl) - 1 THEN 0 ELSE fstep + 1)

C8_Witness ==
    /\ fres = "ok"
    /\ length(tbl) = 8
    /\ fstep = 7
    /\ frame.next = TraceRow(0)
    /\ frame.current = TraceRow(7)
    /\ TraceRow(0) # TraceRow(7)
    /\ TraceRow(0) # TraceRow(1)

\* an assertion holds on the main segment
AssertionHolds(a) ==
    /\ a.column \in 0..(width(tbl) - 1)
    /\ a.step \in 0..(length(tbl) - 1)
    /\ get(tbl, a.column, a.step) = a.value

\* the table has one column and was filled with init state[0] = seed and
\* update state[0] = state[0]^alpha + 42
ScenarioA ==
    /\ fpc = "done"
    /\ width(tbl) = 1
    /\ closures.init = "seed"
    /\ closures.update = "vdf"

\* C10: in Scenario A (width 1, length 8) cell (column 0, row 7) is the seven-fold
\* iterate of x -> x^alpha + 42 applied to seed, and both assertions of
\* VdfAir::get_assertions, (0, 0, seed) and (0, L-1, result) with result that iterate,
\* hold on the filled trace.
C10_ScenarioA ==
    (ScenarioA /\ length(tbl) = 8) =>
        /\ get(tbl, 0, 7) = VdfIterate(7, closures.seed)
        /\ (/\ air # NoAir
            /\ air.seed = closures.seed
            /\ air.result = VdfIterate(7, closures.seed)) =>
               /\ Len(get_assertions(air)) = 2
               /\ \A k \in 1..2 : AssertionHolds(get_assertions(air)[k])

C10_Witness ==
    /\ ScenarioA
    /\ length(tbl) = 8
    /\ closures.seed = 5
    /\ air = [trace_length |-> 8, seed |-> 5, result |-> VdfIterate(7, 5)]
    /\ get(tbl, 0, 7) = 46

\* ------------------------------------------ claims on the evaluation frame

\* C9: after read_from(columns, step) the frame holds the trace values at the step
\* (row(0) is the trace row at step, row(1) the row that follows it), and row_count
\* and the width of each row are the same as before the call.
C9_FrameRepopulated ==
    rcall.called =>
        /\ row(data, 0) = [c \in DOMAIN rcall.columns |-> rcall.columns[c][rcall.step]]
        /\ row(data, 1) =
               [c \in DOMAIN rcall.columns |->
                   rcall.columns[c][(rcall.step + 1) % FrameTraceLength]]
        /\ row_count(data) = row_count(rcall.before)
        /\ \A i \in DOMAIN data : DOMAIN data[i] = DOMAIN rcall.before[i]

\* ------------------------------------------- claims on the auxiliary segment

\* the first build_aux_segment of the table returned a matrix
AuxBuilt == auxres = "Some"

\* the rows of the table
Rows == 0..(length(tbl) - 1)

\* the rows whose bus values enter the product of a later row
UsedRows == 0..(length(tbl) - 2)

\* the rows the bus columns are seeded at
SeedRows == {i \in Rows : i = 0 \/ i % CYCLE_LENGTH = CYCLE_LENGTH - 1}

\* the third random element of the call
ThirdRand == auxargs.rand_elements[2]

\* the linear combination of the main trace columns a, b at row i
Combination(i, a, b) ==
    (auxargs.rand_elements[0] * get(tbl, a, i) + auxargs.rand_elements[1] * get(tbl, b, i)) % M

\* C11: on every constructed and filled table, whatever its width, a call with prior
\* segments returns None, and a call without prior segments and with at least three
\* random elements returns a matrix of aux_trace_width columns and length rows
C11_ResultShape ==
    auxres # "none" =>
        IF auxargs.segments > 0
        THEN auxres = "None"
        ELSE Cardinality(DOMAIN auxargs.rand_elements) >= 3 =>
                /\ auxres = "Some"
                /\ DOMAIN aux = 0..(aux_trace_width(tbl) - 1)
                /\ \A c \in DOMAIN aux : DOMAIN aux[c] = Rows

\* how many of the rows of S hold the value v in the auxiliary column c
Count(c, S, v) == Cardinality({i \in S : aux[c][i] = v})

\* the values of bus column 0 and of bus column 1 at the rows of S are equal multisets
SameMultiset(S) == \A v \in FieldElements : Count(0, S, v) = Count(1, S, v)

\* C12 as stated: the product at the last row is the identity if and only if the values
\* seeded into bus column 0 and those seeded into bus column 1 are equal multisets
C12_IdentityIffPermutation ==
    AuxBuilt => (aux[2][length(tbl) - 1] = ONE <=> SameMultiset(SeedRows))

\* C12: when the bus values of the rows before the last one are equal multisets and
\* none of the denominators bus1[i] + r of these rows is zero, the product at the last
\* row is the identity
C12_PermutationGivesIdentity ==
    (/\ AuxBuilt
     /\ SameMultiset(UsedRows)
     /\ \A i \in UsedRows : (aux[1][i] + ThirdRand) % M # ZERO) =>
        aux[2][length(tbl) - 1] = ONE

\* seed values exchanged between two cycles, and the product returns to the identity
C12_Witness ==
    /\ AuxBuilt
    /\ closures.seed = 1
    /\ length(tbl) = 16
    /\ ThirdRand = 3
    /\ aux[0][0] # aux[1][0]
    /\ aux[2][3] # ONE
    /\ SameMultiset(UsedRows)
    /\ aux[2][15] = ONE

\* C16: the product column is ONE at row 0, and at every later row i it is the product
\* at row i - 1 times (bus0[i-1] + r) times the inverse of (bus1[i-1] + r), taken from
\* the returned bus columns; whether row i is a seed row makes no difference
C16_Recurrence ==
    AuxBuilt =>
        /\ aux[2][0] = ONE
        /\ \A i \in Rows \ {0} :
              LET num == (aux[0][i - 1] + ThirdRand) % M
                  denom == (aux[1][i - 1] + ThirdRand) % M
              IN  /\ aux[2][i] = (aux[2][i - 1] * num * inv(denom)) % M
                  /\ denom # ZERO => (aux[2][i] * denom) % M = (aux[2][i - 1] * num) % M

\* a seed row whose bus values differ from those of the row before it
C16_Witness ==
    /\ AuxBuilt
    /\ length(tbl) = 8
    /\ closures.seed = 3
    /\ ThirdRand = 1
    /\ aux[0][3] # aux[0][2]
    /\ aux[0][3] # aux[1][3]
    /\ aux[2][3] = aux[2][2]
    /\ aux[2][4] # aux[2][3]

\* C18: the bus columns hold the linear combinations of the main trace columns at row 0
\* and at the last row of every cycle and ZERO at every other row; and when r is not
\* ZERO the product of a row whose previous row is not a seed row is the product of
\* the previous row
C18_BusZeroBetweenSeeds ==
    AuxBuilt =>
        /\ \A i \in SeedRows :
              /\ aux[0][i] = Combination(i, 2, 3)
              /\ aux[1][i] = Combination(i, 6, 7)
        /\ \A i \in Rows \ SeedRows : aux[0][i] = ZERO /\ aux[1][i] = ZERO
        /\ ThirdRand # ZERO =>
              \A i \in Rows \ {0} : (i - 1) \notin SeedRows => aux[2][i] = aux[2][i - 1]

\* non-zero values in the main trace between two seed rows, a non-zero seed, and a
\* product that has moved away from ONE and stays while the bus columns are ZERO
C18_Witness ==
    /\ AuxBuilt
    /\ length(tbl) = 16
    /\ ThirdRand = 3
    /\ Combination(5, 2, 3) # ZERO
    /\ aux[0][5] = ZERO
    /\ aux[0][7] # ZERO
    /\ aux[2][5] # ONE
    /\ aux[2][6] = aux[2][5]
    /\ aux[2][7] = aux[2][5]

\* ------------------------------------------------ claims on the byte codec

\* the cursor of the last read plus its width, in full-width arithmetic
ReadEnd == overflowing_add(bres.before, bres.width)

\* pos + width <= length of the input, for the last read
ReadFits == ~ReadEnd.overflow /\ ~usize_gt(ReadEnd.val, slice_len(bsrc))

\* the k-th of the bytes the last read was positioned at
ByteAt(k) == bsrc[usize_to_index(bres.before) + k]

\* the little-endian value of the bytes at [pos, pos + width), as the reads return it
ExpectedValue ==
    CASE bres.fn = "read_u8" -> <<ByteAt(1)>>
      [] bres.fn = "read_u8_vec" -> [k \in 1..usize_to_index(bres.width) |-> ByteAt(k)]
      [] OTHER -> [j \in 1..((usize_to_index(bres.width) + 1) \div 2) |->
                      ByteAt(2 * j - 1) + 256 * ByteAt(2 * j)]

\* C13: every read, at every cursor, succeeds exactly when pos + width <= length of the
\* input, then returns the little-endian value of the bytes at the cursor and moves
\* the cursor by the width, and otherwise returns UnexpectedEOF without a panic
C13_Reads ==
    bres.fn # "none" =>
        IF ReadFits
        THEN /\ bres.outcome = "Ok"
             /\ bres.val = ExpectedValue
             /\ bpos = ReadEnd.val
        ELSE bres.outcome = "UnexpectedEOF"

\* ------------------------------------------------ claims on the grouping

\* C14: for n elements and a chunk size N that divides n, both groupings return n / N
\* chunks, chunk i holding the source elements i * N .. i * N + N - 1 in order;
\* flattening what they returned gives back the source; and the grouping aborts when
\* N does not divide n
C14_GroupFlatten ==
    gres.fn # "none" =>
        LET n == gvec.len
            N == gres.N
        IN  IF N > 0 /\ n % N = 0
            THEN /\ gres.outcome = "Ok"
                 /\ gres.grouped.len = n \div N
                 /\ DOMAIN chunks(gres.grouped, N) = 0..((n \div N) - 1)
                 /\ \A i \in 0..((n \div N) - 1) : \A j \in 0..(N - 1) :
                        chunks(gres.grouped, N)[i][j] = elements(gvec)[i * N + j]
                 /\ gres.flattened => elements(gres.flat) = elements(gvec)
            ELSE gres.outcome = "panic"

\* the sequence 0..7 grouped by 2 and flattened again
C14_Witness ==
    /\ gres.fn = "group_vector_elements"
    /\ gres.N = 2
    /\ elements(gvec) = [k \in 0..7 |-> k]
    /\ chunks(gres.grouped, 2) = [i \in 0..3 |-> [j \in 0..1 |-> 2 * i + j]]
    /\ chunks(gres.grouped, 2)[3][0] = 6
    /\ gres.flattened
    /\ gres.flat.len = 8

\* ------------------------------------------- claims on the transposition

\* the number of elements of the source handed to transpose_slice
SourceLen == Cardinality(DOMAIN psrc.source)

\* N divides the number of elements of the source
Divisible == psrc.N > 0 /\ SourceLen % psrc.N = 0

\* C15: transpose_slice aborts exactly when N does not divide n; while the workers run,
\* in whatever order, a cell is written at most once and only by the worker that took
\* its row; and when the call returns the result has n / N rows, every cell was
\* written exactly once and result[i][j] = source[i + j * (n / N)]
C15_Transpose ==
    /\ ppc # "idle" => (ppc = "panic" <=> ~Divisible)
    /\ ppc \in {"running", "done"} =>
          \A i \in DOMAIN presult : \A j \in DOMAIN presult[i] :
              /\ Len(pcount[i][j]) <= 1
              /\ \A k \in 1..Len(pcount[i][j]) : pcount[i][j][k] = powner[i]
              /\ pcount[i][j] = <<>> => presult[i][j] = Uninit
    /\ ppc = "done" =>
          /\ DOMAIN presult = 0..((SourceLen \div psrc.N) - 1)
          /\ \A i \in DOMAIN presult :
                /\ DOMAIN presult[i] = 0..(psrc.N - 1)
                /\ powner[i] \in Workers
                /\ \A j \in DOMAIN presult[i] :
                      /\ Len(pcount[i][j]) = 1
                      /\ presult[i][j] = psrc.source[i + j * (SourceLen \div psrc.N)]

\* six elements in three rows of two, the rows shared between both workers
C15_Witness ==
    /\ ppc = "done"
    /\ SourceLen = 6
    /\ psrc.N = 2
    /\ powner = [i \in 0..2 |-> IF i = 1 THEN 1 ELSE 2]
    /\ presult[0] = [j \in 0..1 |-> IF j = 0 THEN 10 ELSE 13]
    /\ presult[2] = [j \in 0..1 |-> IF j = 0 THEN 12 ELSE 15]

\* ------------------------------------ claims on the transition constraint

\* evaluate_transition was called on the frame (row i, row i + 1), i in 0..L-2, of the
\* one-column trace that fill built from the seed with the update closure uk
EvaluatedOn(uk) ==
    /\ eres.called
    /\ closures.init = "seed"
    /\ closures.update = uk
    /\ eres.step <= length(tbl) - 2

\* the constraint result is ZERO for the frame as read and not ZERO for the frame whose
\* next row was changed
AcceptsExactly ==
    IF eres.change = 0 THEN eres.result[0] = ZERO ELSE eres.result[0] # ZERO

\* C17 as stated: on the trace filled with update state[0] = state[0]^ALPHA + 42
C17_ScenarioATransition == EvaluatedOn("vdf") => AcceptsExactly

\* C17: on the trace filled with update state[0] = (state[0] - 42)^(1/ALPHA), so that
\* every row is the ALPHA-th power of the row after it plus 42, evaluate_transition
\* writes ZERO for the frame (row i, row i + 1) and a non-zero value for a frame whose
\* next row was changed
C17_InverseTrace == EvaluatedOn("vdf_inv") => AcceptsExactly

\* the last frame of a trace of 8 rows, evaluated into a slice that held ONE
C17_Witness ==
    /\ EvaluatedOn("vdf_inv")
    /\ length(tbl) = 8
    /\ eres.step = 6
    /\ eres.change = 0
    /\ eres.prior[0] = ONE
    /\ frame_current(eres.frame)[0] = get(tbl, 0, 6)
    /\ frame_next(eres.frame)[0] = get(tbl, 0, 7)
    /\ get(tbl, 0, 6) # get(tbl, 0, 7)
    /\ get(tbl, 0, 6) = (exp(get(tbl, 0, 7), ALPHA) + FORTY_TWO) % M
    /\ eres.result[0] = ZERO

====
